---- MODULE Spec2Model ----
(***************************************************************************)
(* Model of the IAM security audit tool (audit.py, config.py).             *)
(*                                                                         *)
(* The program is a sequential batch run: three collectors query the IAM   *)
(* API, main stores their results in the module-level findings dict,       *)
(* generate_html_report writes the HTML document, main prints a summary    *)
(* and dumps the findings as JSON.  Each API call and each file write is   *)
(* one step that either succeeds or raises.                                *)
(*                                                                         *)
(* Time is counted in ticks, TicksPerDay ticks to a day, so that           *)
(* timedelta.days (a floor division) is not the identity.                  *)
(***************************************************************************)
EXTENDS Integers, Sequences, FiniteSets, TLC

(***************************************************************************)
(* Program constants (config.py)                                           *)
(***************************************************************************)
MAX_ACCESS_KEY_AGE_DAYS == 90
INACTIVE_KEY_DAYS == 30
REPORT_FOLDER == "reports"

(***************************************************************************)
(* Bounds of the model                                                     *)
(***************************************************************************)
MaxUsers == 2        \* principals in the account
MaxKeys == 1         \* access keys per principal
MaxDevices == 1      \* MFA devices per principal
MaxDrift == 1        \* ticks the wall clock may advance during the run
TicksPerDay == 2     \* resolution of the clock
EpochDays == 200     \* the run starts EpochDays days after the epoch

Now0 == EpochDays * TicksPerDay

(***************************************************************************)
(* Python values.  A scalar is tagged with its type, as a str and an int   *)
(* are different values in Python and in JSON.                             *)
(***************************************************************************)
PyStr(s) == [t |-> "str", n |-> 0, s |-> s]
PyInt(n) == [t |-> "int", n |-> n, s |-> ""]

\* str(v) as f-string interpolation applies it
Str(v) == IF v.t = "int" THEN ToString(v.n) ELSE v.s

\* datetime.isoformat(): the date part and the time-of-day part
isoformat(d) == "D" \o ToString(d \div TicksPerDay) \o "T" \o ToString(d % TicksPerDay)

\* (a - b).days : timedelta.days is the floor of the difference in days
days(a, b) == (a - b) \div TicksPerDay

\* s[-6:]
Last6(s) == SubSeq(s, IF Len(s) > 6 THEN Len(s) - 5 ELSE 1, Len(s))

(***************************************************************************)
(* The IAM account the API serves.                                         *)
(***************************************************************************)
UserNames == <<"alice", "bob", "carol", "dave">>

\* AccessKeyLastUsed of a key: an empty dict when the key was never used
NeverUsed == <<>>
UsedAt(d) == [LastUsedDate |-> d]

\* Key metadata around the two thresholds: a never-used key past the age
\* limit, a key at the age limit last used at the inactivity limit, a key at
\* the age limit last used a day past the inactivity limit, and a young
\* never-used key
KeyMeta ==
  << [CreateDate |-> Now0 - (MAX_ACCESS_KEY_AGE_DAYS + 1) * TicksPerDay,
      Status |-> "Active", AccessKeyLastUsed |-> NeverUsed],
     [CreateDate |-> Now0 - MAX_ACCESS_KEY_AGE_DAYS * TicksPerDay - (TicksPerDay - 1),
      Status |-> "Active",
      AccessKeyLastUsed |-> UsedAt(Now0 - INACTIVE_KEY_DAYS * TicksPerDay - (TicksPerDay - 1))],
     [CreateDate |-> Now0 - MAX_ACCESS_KEY_AGE_DAYS * TicksPerDay - (TicksPerDay - 1),
      Status |-> "Inactive",
      AccessKeyLastUsed |-> UsedAt(Now0 - (INACTIVE_KEY_DAYS + 1) * TicksPerDay)],
     [CreateDate |-> Now0 - TicksPerDay,
      Status |-> "Active", AccessKeyLastUsed |-> NeverUsed] >>

KeyIdOf(u, k) == "AK" \o ToString(u) \o "IDKEY" \o ToString(k)

\* The account with n users of m keys each, where the device counts start
\* from d and the key metadata from entry r of KeyMeta; user names and key
\* identifiers are unique
Account(n, m, d, r) ==
  [u \in 1..n |->
     [UserName |-> UserNames[u],
      CreateDate |-> Now0 - u * TicksPerDay,
      MFADevices |-> (u + d) % (MaxDevices + 1),
      AccessKeyMetadata |->
        [k \in 1..m |->
           LET meta == KeyMeta[(((u - 1) * m + (k - 1) + r) % Len(KeyMeta)) + 1]
           IN [AccessKeyId |-> KeyIdOf(u, k),
               CreateDate |-> meta.CreateDate,
               Status |-> meta.Status,
               AccessKeyLastUsed |-> meta.AccessKeyLastUsed]]]]

\* The accounts the run may audit
Accounts ==
  { Account(n, m, d, r) : n \in 0..MaxUsers, m \in 0..MaxKeys, d \in 0..MaxDevices,
                          r \in 0..(Len(KeyMeta) - 1) }

VARIABLES
  iam,               \* the account behind iam_client
  clock,             \* the wall clock, in ticks
  pc,                \* position of main
  findings,          \* the module-level findings dict
  current_time,      \* current_time of check_old_access_keys and of check_unused_access_keys
  users,             \* response['Users'] of the running collector
  access_keys,       \* keys_response['AccessKeyMetadata'] of the current user
  ui, ki,            \* loop positions in users and access_keys
  users_without_mfa, \* local result list of check_users_without_mfa
  old_keys,          \* local result list of check_old_access_keys
  unused_keys,       \* local result list of check_unused_access_keys
  raised,            \* the exceptions caught by the collectors' except branches
  stdout,            \* the lines printed that the summary consists of
  report_file,       \* path returned by generate_html_report
  htmlFile,          \* content of the HTML report file, NoFile when absent
  jsonFile,          \* content of the JSON report file, NoFile when absent
  written,           \* the files whose with-block completed
  exit_status        \* -1 while running, then the process exit status

vars == <<iam, clock, pc, findings, current_time, users, access_keys, ui, ki,
          users_without_mfa, old_keys, unused_keys, raised, stdout,
          report_file, htmlFile, jsonFile, written, exit_status>>

NoFile == <<>>

\* datetime.now(...): the clock may have advanced since it was last read
Tick == clock' \in { c \in clock..(clock + 1) : c <= Now0 + MaxDrift }

(***************************************************************************)
(* API responses                                                           *)
(***************************************************************************)
\* iam_client.list_users()['Users']
list_users == [u \in 1..Len(iam) |-> [UserName |-> iam[u].UserName, CreateDate |-> iam[u].CreateDate]]

IamUser(username) == CHOOSE u \in 1..Len(iam) : iam[u].UserName = username

\* len(iam_client.list_mfa_devices(UserName=username)['MFADevices'])
list_mfa_devices(username) == iam[IamUser(username)].MFADevices

\* iam_client.list_access_keys(UserName=username)['AccessKeyMetadata']
list_access_keys(username) ==
  [k \in 1..Len(iam[IamUser(username)].AccessKeyMetadata) |->
     [AccessKeyId |-> iam[IamUser(username)].AccessKeyMetadata[k].AccessKeyId,
      CreateDate |-> iam[IamUser(username)].AccessKeyMetadata[k].CreateDate,
      Status |-> iam[IamUser(username)].AccessKeyMetadata[k].Status]]

\* iam_client.get_access_key_last_used(AccessKeyId=key_id).get('AccessKeyLastUsed', {})
get_access_key_last_used(key_id) ==
  LET u == CHOOSE u \in 1..Len(iam) :
             \E k \in 1..Len(iam[u].AccessKeyMetadata) : iam[u].AccessKeyMetadata[k].AccessKeyId = key_id
      k == CHOOSE k \in 1..Len(iam[u].AccessKeyMetadata) : iam[u].AccessKeyMetadata[k].AccessKeyId = key_id
  IN iam[u].AccessKeyMetadata[k].AccessKeyLastUsed

(***************************************************************************)
(* Initial state: module import (lines 13-23)                              *)
(***************************************************************************)
Init ==
  /\ iam \in Accounts
  /\ clock = Now0
  /\ pc = "mfa_list_users"
  /\ findings = [timestamp |-> PyStr(isoformat(Now0)),
                 users_without_mfa |-> <<>>,
                 old_access_keys |-> <<>>,
                 unused_access_keys |-> <<>>,
                 users_with_inline_policies |-> <<>>,
                 root_account_usage |-> <<>>]
  /\ current_time = [old |-> Now0, unused |-> Now0]
  /\ users = <<>>
  /\ access_keys = <<>>
  /\ ui = 1
  /\ ki = 1
  /\ users_without_mfa = <<>>
  /\ old_keys = <<>>
  /\ unused_keys = <<>>
  /\ raised = {}
  /\ stdout = <<>>
  /\ report_file = ""
  /\ htmlFile = NoFile
  /\ jsonFile = NoFile
  /\ written = {}
  /\ exit_status = -1

(***************************************************************************)
(* check_users_without_mfa (lines 26-62)                                   *)
(***************************************************************************)
MfaRecord(user) ==
  [username |-> PyStr(user.UserName),
   created_date |-> PyStr(isoformat(user.CreateDate)),
   severity |-> PyStr("HIGH")]

\* line 49, with one device too few counted
NoMfaDevices_mut(mfa_devices) == mfa_devices <= 1

\* line 49
NoMfaDevices(mfa_devices) == mfa_devices = 0

\* lines 34-39: the result list is created and the users are listed
MfaListUsers ==
  /\ pc = "mfa_list_users"
  /\ users_without_mfa' = <<>>
  /\ users' = list_users
  /\ ui' = 1
  /\ pc' = "mfa_devices"
  /\ UNCHANGED <<iam, clock, findings, current_time, access_keys, ki, old_keys, unused_keys,
                 raised, stdout, report_file, htmlFile, jsonFile, written, exit_status>>

\* lines 42-55: one iteration of the loop over users
MfaCheckUser ==
  /\ pc = "mfa_devices"
  /\ ui <= Len(users)
  /\ users_without_mfa' =
       IF NoMfaDevices(list_mfa_devices(users[ui].UserName))
         THEN Append(users_without_mfa, MfaRecord(users[ui]))
         ELSE users_without_mfa
  /\ ui' = ui + 1
  /\ UNCHANGED <<iam, clock, pc, findings, current_time, users, access_keys, ki, old_keys,
                 unused_keys, raised, stdout, report_file, htmlFile, jsonFile, written,
                 exit_status>>

\* the except branch returning an empty list instead of the list built so far
MfaRaise_mut ==
  /\ \/ pc = "mfa_list_users"
     \/ pc = "mfa_devices" /\ ui <= Len(users)
  /\ raised' = raised \cup {[check |-> "mfa", at |-> pc, ui |-> ui, ki |-> ki]}
  /\ findings' = [findings EXCEPT !.users_without_mfa = <<>>]
  /\ users_without_mfa' = <<>>
  /\ pc' = "old_list_users"
  /\ UNCHANGED <<iam, clock, current_time, users, access_keys, ui, ki, old_keys, unused_keys,
                 stdout, report_file, htmlFile, jsonFile, written, exit_status>>

\* lines 59-62 and 390: list_users or list_mfa_devices raises, the except
\* branch prints the error, and the function returns its list to main
MfaRaise ==
  /\ \/ pc = "mfa_list_users"
     \/ pc = "mfa_devices" /\ ui <= Len(users)
  /\ raised' = raised \cup {[check |-> "mfa", at |-> pc, ui |-> ui, ki |-> ki]}
  /\ findings' = [findings EXCEPT !.users_without_mfa =
                    IF pc = "mfa_list_users" THEN <<>> ELSE users_without_mfa]
  /\ users_without_mfa' = IF pc = "mfa_list_users" THEN <<>> ELSE users_without_mfa
  /\ pc' = "old_list_users"
  /\ UNCHANGED <<iam, clock, current_time, users, access_keys, ui, ki, old_keys, unused_keys,
                 stdout, report_file, htmlFile, jsonFile, written, exit_status>>

\* lines 57, 62 and 390: the loop is over, the function returns its list to main
MfaReturn ==
  /\ pc = "mfa_devices"
  /\ ui > Len(users)
  /\ findings' = [findings EXCEPT !.users_without_mfa = users_without_mfa]
  /\ pc' = "old_list_users"
  /\ UNCHANGED <<iam, clock, current_time, users, access_keys, ui, ki, users_without_mfa,
                 old_keys, unused_keys, raised, stdout, report_file, htmlFile, jsonFile,
                 written, exit_status>>

(***************************************************************************)
(* check_old_access_keys (lines 65-115)                                    *)
(***************************************************************************)
OldKeyRecord(username, key, age_in_days) ==
  [username |-> PyStr(username),
   access_key_id |-> PyStr(key.AccessKeyId),
   age_days |-> PyInt(age_in_days),
   created_date |-> PyStr(isoformat(key.CreateDate)),
   status |-> PyStr(key.Status),
   severity |-> PyStr("MEDIUM")]

\* line 99 with >= for >
IsOld_mut(age_in_days) == age_in_days >= MAX_ACCESS_KEY_AGE_DAYS

\* line 99
IsOld(age_in_days) == age_in_days > MAX_ACCESS_KEY_AGE_DAYS

\* lines 91-107: the loop over the keys of one user, from key k on
RECURSIVE ScanOldKeys(_, _, _, _, _)
ScanOldKeys(username, keys, now, k, acc) ==
  IF k > Len(keys) THEN acc
  ELSE LET age_in_days == days(now, keys[k].CreateDate)
       IN ScanOldKeys(username, keys, now, k + 1,
                      IF IsOld(age_in_days)
                        THEN Append(acc, OldKeyRecord(username, keys[k], age_in_days))
                        ELSE acc)

\* lines 76-82: the result list is created, the time sampled, the users listed
OldListUsers ==
  /\ pc = "old_list_users"
  /\ Tick
  /\ old_keys' = <<>>
  /\ current_time' = [current_time EXCEPT !.old = clock']
  /\ users' = list_users
  /\ ui' = 1
  /\ pc' = "old_keys"
  /\ UNCHANGED <<iam, findings, access_keys, ki, users_without_mfa, unused_keys, raised,
                 stdout, report_file, htmlFile, jsonFile, written, exit_status>>

\* lines 84-107: one iteration of the loop over users
OldCheckUser ==
  /\ pc = "old_keys"
  /\ ui <= Len(users)
  /\ access_keys' = list_access_keys(users[ui].UserName)
  /\ old_keys' = ScanOldKeys(users[ui].UserName, access_keys', current_time.old, 1, old_keys)
  /\ ui' = ui + 1
  /\ UNCHANGED <<iam, clock, pc, findings, current_time, users, ki, users_without_mfa,
                 unused_keys, raised, stdout, report_file, htmlFile, jsonFile, written,
                 exit_status>>

\* the exception leaving check_old_access_keys instead of being caught
OldRaise_mut ==
  /\ \/ pc = "old_list_users"
     \/ pc = "old_keys" /\ ui <= Len(users)
  /\ raised' = raised \cup {[check |-> "old", at |-> pc, ui |-> ui, ki |-> ki]}
  /\ pc' = "aborted"
  /\ exit_status' = 1
  /\ UNCHANGED <<iam, clock, findings, current_time, users, access_keys, ui, ki,
                 users_without_mfa, old_keys, unused_keys, stdout, report_file, htmlFile,
                 jsonFile, written>>

\* lines 112-115 and 391: list_users or list_access_keys raises
OldRaise ==
  /\ \/ pc = "old_list_users"
     \/ pc = "old_keys" /\ ui <= Len(users)
  /\ IF pc = "old_list_users"
       THEN /\ Tick
            /\ current_time' = [current_time EXCEPT !.old = clock']
            /\ old_keys' = <<>>
       ELSE UNCHANGED <<clock, current_time, old_keys>>
  /\ raised' = raised \cup {[check |-> "old", at |-> pc, ui |-> ui, ki |-> ki]}
  /\ findings' = [findings EXCEPT !.old_access_keys = old_keys']
  /\ pc' = "unused_list_users"
  /\ UNCHANGED <<iam, users, access_keys, ui, ki, users_without_mfa, unused_keys, stdout,
                 report_file, htmlFile, jsonFile, written, exit_status>>

\* lines 110, 115 and 391
OldReturn ==
  /\ pc = "old_keys"
  /\ ui > Len(users)
  /\ findings' = [findings EXCEPT !.old_access_keys = old_keys]
  /\ pc' = "unused_list_users"
  /\ UNCHANGED <<iam, clock, current_time, users, access_keys, ui, ki, users_without_mfa,
                 old_keys, unused_keys, raised, stdout, report_file, htmlFile, jsonFile,
                 written, exit_status>>

(***************************************************************************)
(* check_unused_access_keys (lines 118-180)                                *)
(***************************************************************************)
UnusedKeyRecord(username, key_id, last_used, days_since_use) ==
  [username |-> PyStr(username),
   access_key_id |-> PyStr(key_id),
   last_used |-> last_used,
   days_since_use |-> days_since_use,
   severity |-> PyStr("LOW")]

\* line 151
HasLastUsedDate(last_used_data) == "LastUsedDate" \in DOMAIN last_used_data

\* line 155
IsInactive(days_since_use) == days_since_use > INACTIVE_KEY_DAYS

\* lines 150-172 with a key used within the threshold left out
UnusedKeyFindings_mut(username, key_id, last_used_data, now) ==
  IF HasLastUsedDate(last_used_data)
    THEN LET last_used == last_used_data.LastUsedDate
             days_since_use == days(now, last_used)
         IN IF IsInactive(days_since_use)
              THEN <<UnusedKeyRecord(username, key_id, PyStr(isoformat(last_used)),
                                     PyInt(days_since_use))>>
              ELSE <<>>
    ELSE <<>>

\* lines 150-172: what one key adds to the result list
UnusedKeyFindings(username, key_id, last_used_data, now) ==
  IF HasLastUsedDate(last_used_data)
    THEN LET last_used == last_used_data.LastUsedDate
             days_since_use == days(now, last_used)
         IN IF IsInactive(days_since_use)
              THEN <<UnusedKeyRecord(username, key_id, PyStr(isoformat(last_used)),
                                     PyInt(days_since_use))>>
              ELSE <<UnusedKeyRecord(username, key_id, PyStr("Never"), PyStr("N/A"))>>
    ELSE <<>>

\* lines 130-135
UnusedListUsers ==
  /\ pc = "unused_list_users"
  /\ Tick
  /\ unused_keys' = <<>>
  /\ current_time' = [current_time EXCEPT !.unused = clock']
  /\ users' = list_users
  /\ ui' = 1
  /\ ki' = 1
  /\ access_keys' = <<>>
  /\ pc' = "unused_keys"
  /\ UNCHANGED <<iam, findings, users_without_mfa, old_keys, raised, stdout, report_file,
                 htmlFile, jsonFile, written, exit_status>>

\* lines 137-141: the keys of the next user are listed; a user without keys is done
UnusedListKeys ==
  /\ pc = "unused_keys"
  /\ ui <= Len(users)
  /\ access_keys' = list_access_keys(users[ui].UserName)
  /\ ki' = 1
  /\ IF access_keys' = <<>>
       THEN ui' = ui + 1 /\ pc' = "unused_keys"
       ELSE ui' = ui /\ pc' = "unused_last_used"
  /\ UNCHANGED <<iam, clock, findings, current_time, users, users_without_mfa, old_keys,
                 unused_keys, raised, stdout, report_file, htmlFile, jsonFile, written,
                 exit_status>>

\* lines 143-172: one iteration of the loop over the keys of the current user
UnusedCheckKey ==
  /\ pc = "unused_last_used"
  /\ ki <= Len(access_keys)
  /\ LET key_id == access_keys[ki].AccessKeyId
     IN unused_keys' = unused_keys \o
          UnusedKeyFindings(users[ui].UserName, key_id, get_access_key_last_used(key_id),
                            current_time.unused)
  /\ IF ki = Len(access_keys)
       THEN ui' = ui + 1 /\ ki' = 1 /\ pc' = "unused_keys"
       ELSE ui' = ui /\ ki' = ki + 1 /\ pc' = "unused_last_used"
  /\ UNCHANGED <<iam, clock, findings, current_time, users, access_keys, users_without_mfa,
                 old_keys, raised, stdout, report_file, htmlFile, jsonFile, written,
                 exit_status>>

\* lines 177-180 and 392: list_users, list_access_keys or get_access_key_last_used raises
UnusedRaise ==
  /\ \/ pc = "unused_list_users"
     \/ pc = "unused_keys" /\ ui <= Len(users)
     \/ pc = "unused_last_used"
  /\ IF pc = "unused_list_users"
       THEN /\ Tick
            /\ current_time' = [current_time EXCEPT !.unused = clock']
            /\ unused_keys' = <<>>
       ELSE UNCHANGED <<clock, current_time, unused_keys>>
  /\ raised' = raised \cup {[check |-> "unused", at |-> pc, ui |-> ui, ki |-> ki]}
  /\ findings' = [findings EXCEPT !.unused_access_keys = unused_keys']
  /\ pc' = "render"
  /\ UNCHANGED <<iam, users, access_keys, ui, ki, users_without_mfa, old_keys, stdout,
                 report_file, htmlFile, jsonFile, written, exit_status>>

\* lines 175, 180 and 392
UnusedReturn ==
  /\ pc = "unused_keys"
  /\ ui > Len(users)
  /\ findings' = [findings EXCEPT !.unused_access_keys = unused_keys]
  /\ pc' = "render"
  /\ UNCHANGED <<iam, clock, current_time, users, access_keys, ui, ki, users_without_mfa,
                 old_keys, unused_keys, raised, stdout, report_file, htmlFile, jsonFile,
                 written, exit_status>>

(***************************************************************************)
(* generate_html_report (lines 182-379)                                    *)
(***************************************************************************)
\* strftime("%Y%m%d_%H%M%S")
strftime(d) == ToString(d \div TicksPerDay) \o "_" \o ToString(d % TicksPerDay)

\* the total with one of the three sequences forgotten
total_issues_mut(f) == Len(f.users_without_mfa) + Len(f.old_access_keys)

\* lines 202-206 and 398-402
total_issues(f) ==
  Len(f.users_without_mfa) + Len(f.old_access_keys) + Len(f.unused_access_keys)

\* lines 306-312
MfaRow(user) ==
  Str(user.username) \o "|" \o Str(user.created_date) \o "|" \o Str(user.severity)

\* lines 330-337
OldKeyRow(key) ==
  Str(key.username) \o "|..." \o Last6(Str(key.access_key_id)) \o "|" \o Str(key.age_days)
    \o "|" \o Str(key.status) \o "|" \o Str(key.severity)

\* lines 356-363
UnusedKeyRow(key) ==
  Str(key.username) \o "|..." \o Last6(Str(key.access_key_id)) \o "|" \o Str(key.last_used)
    \o "|" \o Str(key.days_since_use) \o "|" \o Str(key.severity)

\* lines 209-372: the document, one string per line that depends on the findings
html_content(f) ==
  << "Generated: " \o Str(f.timestamp),
     "Total Issues Found: " \o ToString(total_issues(f)),
     "Users without MFA: " \o ToString(Len(f.users_without_mfa)),
     "Old Access Keys: " \o ToString(Len(f.old_access_keys)),
     "Unused Access Keys: " \o ToString(Len(f.unused_access_keys)) >>
  \o (IF f.users_without_mfa # <<>>
        THEN <<"Users Without MFA">> \o [i \in 1..Len(f.users_without_mfa) |-> MfaRow(f.users_without_mfa[i])] ELSE <<>>)
  \o (IF f.old_access_keys # <<>>
        THEN <<"Old Access Keys">> \o [i \in 1..Len(f.old_access_keys) |-> OldKeyRow(f.old_access_keys[i])] ELSE <<>>)
  \o (IF f.unused_access_keys # <<>>
        THEN <<"Unused Access Keys">> \o [i \in 1..Len(f.unused_access_keys) |-> UnusedKeyRow(f.unused_access_keys[i])] ELSE <<>>)

\* what a write that raises part-way leaves in the file
Truncated(content) == SubSeq(content, 1, 1)

\* lines 192-379: the report file is written and its path returned
GenerateHtmlReport ==
  /\ pc = "render"
  /\ Tick
  /\ report_file' = REPORT_FOLDER \o "/iam_audit_" \o strftime(clock') \o ".html"
  /\ htmlFile' = html_content(findings)
  /\ written' = written \cup {"html"}
  /\ stdout' = Append(stdout, "Report generated: " \o report_file')
  /\ pc' = "summary"
  /\ UNCHANGED <<iam, findings, current_time, users, access_keys, ui, ki, users_without_mfa,
                 old_keys, unused_keys, raised, jsonFile, exit_status>>

\* lines 195, 375-376: makedirs, open or write raises; nothing catches it
\* and the interpreter exits with status 1
GenerateHtmlReportRaise ==
  /\ pc = "render"
  /\ Tick
  /\ htmlFile' \in {NoFile, Truncated(html_content(findings))}
  /\ pc' = "aborted"
  /\ exit_status' = 1
  /\ UNCHANGED <<iam, findings, current_time, users, access_keys, ui, ki, users_without_mfa,
                 old_keys, unused_keys, raised, stdout, report_file, jsonFile, written>>

(***************************************************************************)
(* json.dump and json.load.  The JSON text is a sequence of tokens: the    *)
(* brackets, quoted strings (object keys and str values) and numbers.      *)
(***************************************************************************)
JPunct(c) == [t |-> c, n |-> 0, s |-> ""]
JString(s) == [t |-> "string", n |-> 0, s |-> s]
JNumber(n) == [t |-> "number", n |-> n, s |-> ""]

\* every scalar written as a quoted string
DumpScalar_mut(v) == <<JString(Str(v))>>

\* a str is written quoted, an int as a number
DumpScalar(v) == IF v.t = "int" THEN <<JNumber(v.n)>> ELSE <<JString(v.s)>>

\* a dict of scalars, its items in insertion order
RECURSIVE DumpItems(_, _, _)
DumpItems(d, keys, i) ==
  IF i > Len(keys) THEN <<>>
  ELSE <<JString(keys[i])>> \o DumpScalar(d[keys[i]]) \o DumpItems(d, keys, i + 1)

DumpDict(d, keys) == <<JPunct("{")>> \o DumpItems(d, keys, 1) \o <<JPunct("}")>>

\* a list of dicts
RECURSIVE DumpElements(_, _, _)
DumpElements(list, keys, i) ==
  IF i > Len(list) THEN <<>>
  ELSE DumpDict(list[i], keys) \o DumpElements(list, keys, i + 1)

DumpList(list, keys) == <<JPunct("[")>> \o DumpElements(list, keys, 1) \o <<JPunct("]")>>

\* insertion order of the dict literals at lines 50-54, 100-107, 156-162 and 165-171
MfaKeys == <<"username", "created_date", "severity">>
OldKeyKeys == <<"username", "access_key_id", "age_days", "created_date", "status", "severity">>
UnusedKeyKeys == <<"username", "access_key_id", "last_used", "days_since_use", "severity">>

\* json.dump(findings, f, indent=2): the items of findings in the order of lines 16-23
json_dump(f) ==
  <<JPunct("{")>>
  \o <<JString("timestamp")>> \o DumpScalar(f.timestamp)
  \o <<JString("users_without_mfa")>> \o DumpList(f.users_without_mfa, MfaKeys)
  \o <<JString("old_access_keys")>> \o DumpList(f.old_access_keys, OldKeyKeys)
  \o <<JString("unused_access_keys")>> \o DumpList(f.unused_access_keys, UnusedKeyKeys)
  \o <<JString("users_with_inline_policies")>> \o DumpList(f.users_with_inline_policies, <<>>)
  \o <<JString("root_account_usage")>> \o DumpList(f.root_account_usage, <<>>)
  \o <<JPunct("}")>>

\* json.load: a recursive-descent parser; each operator returns the value
\* parsed and the position after it
RECURSIVE ParseValue(_, _), ParseMembers(_, _, _), ParseElements(_, _, _)
ParseValue(toks, i) ==
  CASE toks[i].t = "string" -> [val |-> PyStr(toks[i].s), next |-> i + 1]
    [] toks[i].t = "number" -> [val |-> PyInt(toks[i].n), next |-> i + 1]
    [] toks[i].t = "{" -> ParseMembers(toks, i + 1, <<>>)
    [] toks[i].t = "[" -> ParseElements(toks, i + 1, <<>>)

ParseMembers(toks, i, acc) ==
  IF toks[i].t = "}" THEN [val |-> acc, next |-> i + 1]
  ELSE LET v == ParseValue(toks, i + 1)
       IN ParseMembers(toks, v.next, (toks[i].s :> v.val) @@ acc)

ParseElements(toks, i, acc) ==
  IF toks[i].t = "]" THEN [val |-> acc, next |-> i + 1]
  ELSE LET v == ParseValue(toks, i)
       IN ParseElements(toks, v.next, Append(acc, v.val))

json_load(toks) == ParseValue(toks, 1).val

(***************************************************************************)
(* main (lines 381-415)                                                    *)
(***************************************************************************)
\* str.replace(old, new)
RECURSIVE replace(_, _, _)
replace(s, old, new) ==
  IF Len(s) < Len(old) THEN s
  ELSE IF SubSeq(s, 1, Len(old)) = old
    THEN new \o replace(SubSeq(s, Len(old) + 1, Len(s)), old, new)
    ELSE SubSeq(s, 1, 1) \o replace(SubSeq(s, 2, Len(s)), old, new)

json_filename == replace(report_file, ".html", ".json")

\* the summary printed only when there are issues
PrintSummary_mut ==
  /\ pc = "summary"
  /\ stdout' = IF total_issues(findings) > 0
                THEN stdout \o << "Audit Complete!",
                                  "Total Issues Found: " \o ToString(total_issues(findings)),
                                  "Report saved to: " \o report_file >>
                ELSE stdout
  /\ pc' = "json"
  /\ UNCHANGED <<iam, clock, findings, current_time, users, access_keys, ui, ki,
                 users_without_mfa, old_keys, unused_keys, raised, report_file, htmlFile,
                 jsonFile, written, exit_status>>

\* lines 397-408
PrintSummary ==
  /\ pc = "summary"
  /\ stdout' = stdout \o << "Audit Complete!",
                            "Total Issues Found: " \o ToString(total_issues(findings)),
                            "Report saved to: " \o report_file >>
  /\ pc' = "json"
  /\ UNCHANGED <<iam, clock, findings, current_time, users, access_keys, ui, ki,
                 users_without_mfa, old_keys, unused_keys, raised, report_file, htmlFile,
                 jsonFile, written, exit_status>>

\* lines 410-415: the findings are dumped and main returns
SaveJson ==
  /\ pc = "json"
  /\ jsonFile' = json_dump(findings)
  /\ written' = written \cup {"json"}
  /\ stdout' = Append(stdout, "JSON report also saved to: " \o json_filename)
  /\ pc' = "done"
  /\ exit_status' = 0
  /\ UNCHANGED <<iam, clock, findings, current_time, users, access_keys, ui, ki,
                 users_without_mfa, old_keys, unused_keys, raised, report_file, htmlFile>>

\* the failure of the write caught and the run ending normally
SaveJsonRaise_mut ==
  /\ pc = "json"
  /\ jsonFile' \in {NoFile, Truncated(json_dump(findings))}
  /\ pc' = "done"
  /\ exit_status' = 0
  /\ UNCHANGED <<iam, clock, findings, current_time, users, access_keys, ui, ki,
                 users_without_mfa, old_keys, unused_keys, raised, stdout, report_file,
                 htmlFile, written>>

\* lines 412-413: open or write raises; nothing catches it
SaveJsonRaise ==
  /\ pc = "json"
  /\ jsonFile' \in {NoFile, Truncated(json_dump(findings))}
  /\ pc' = "aborted"
  /\ exit_status' = 1
  /\ UNCHANGED <<iam, clock, findings, current_time, users, access_keys, ui, ki,
                 users_without_mfa, old_keys, unused_keys, raised, stdout, report_file,
                 htmlFile, written>>

Next ==
  \/ MfaListUsers \/ MfaCheckUser \/ MfaRaise \/ MfaReturn
  \/ OldListUsers \/ OldCheckUser \/ OldRaise \/ OldReturn
  \/ UnusedListUsers \/ UnusedListKeys \/ UnusedCheckKey \/ UnusedRaise \/ UnusedReturn
  \/ GenerateHtmlReport \/ GenerateHtmlReportRaise
  \/ PrintSummary \/ SaveJson \/ SaveJsonRaise

Spec == Init /\ [][Next]_vars

(***************************************************************************)
(* Vocabulary of the properties                                            *)
(***************************************************************************)
Failed(check) == \E r \in raised : r.check = check
FailureOf(check) == CHOOSE r \in raised : r.check = check

MfaReturned == pc \notin {"mfa_list_users", "mfa_devices"}
OldReturned == MfaReturned /\ pc \notin {"old_list_users", "old_keys"}
UnusedReturned == OldReturned /\ pc \notin {"unused_list_users", "unused_keys", "unused_last_used"}

\* the whole days in a span of ticks
FloorDays(span) ==
  CHOOSE a \in 0..(MAX_ACCESS_KEY_AGE_DAYS + MaxDrift + 1) :
    a * TicksPerDay <= span /\ span < (a + 1) * TicksPerDay

KeysOf(u) == iam[u].AccessKeyMetadata
KeyPositions == { <<u, k>> \in (1..Len(iam)) \X (1..MaxKeys + 1) : k <= Len(KeysOf(u)) }
RecordsFor(list, key_id) == { i \in 1..Len(list) : list[i].access_key_id = PyStr(key_id) }

\* the positions the collector had gone through when it returned
MfaDone(u) ==
  IF Failed("mfa")
    THEN FailureOf("mfa").at = "mfa_devices" /\ u < FailureOf("mfa").ui
    ELSE TRUE
OldDone(u) ==
  IF Failed("old")
    THEN FailureOf("old").at = "old_keys" /\ u < FailureOf("old").ui
    ELSE TRUE
UnusedDone(u, k) ==
  IF Failed("unused")
    THEN LET r == FailureOf("unused")
         IN \/ r.at \in {"unused_keys", "unused_last_used"} /\ u < r.ui
            \/ r.at = "unused_last_used" /\ u = r.ui /\ k < r.ki
    ELSE TRUE

\* the records a collector appends for the positions it went through, in order
RECURSIVE MfaExpected(_)
MfaExpected(u) ==
  IF u = 0 THEN <<>>
  ELSE MfaExpected(u - 1) \o
       (IF MfaDone(u) /\ iam[u].MFADevices = 0
          THEN <<[username |-> PyStr(iam[u].UserName),
                  created_date |-> PyStr(isoformat(iam[u].CreateDate)),
                  severity |-> PyStr("HIGH")]>>
          ELSE <<>>)

StaleRecord(u, k) ==
  [username |-> PyStr(iam[u].UserName),
   access_key_id |-> PyStr(KeysOf(u)[k].AccessKeyId),
   age_days |-> PyInt(FloorDays(current_time.old - KeysOf(u)[k].CreateDate)),
   created_date |-> PyStr(isoformat(KeysOf(u)[k].CreateDate)),
   status |-> PyStr(KeysOf(u)[k].Status),
   severity |-> PyStr("MEDIUM")]

RECURSIVE OldExpected(_, _)
OldExpected(u, k) ==
  IF u = 0 THEN <<>>
  ELSE IF k = 0 THEN OldExpected(u - 1, IF u = 1 THEN 0 ELSE Len(KeysOf(u - 1)))
  ELSE OldExpected(u, k - 1) \o
       (IF OldDone(u) /\ FloorDays(current_time.old - KeysOf(u)[k].CreateDate) > MAX_ACCESS_KEY_AGE_DAYS
          THEN <<StaleRecord(u, k)>>
          ELSE <<>>)

NeverRecord(u, k) ==
  [username |-> PyStr(iam[u].UserName),
   access_key_id |-> PyStr(KeysOf(u)[k].AccessKeyId),
   last_used |-> PyStr("Never"),
   days_since_use |-> PyStr("N/A"),
   severity |-> PyStr("LOW")]

InactiveRecord(u, k) ==
  [username |-> PyStr(iam[u].UserName),
   access_key_id |-> PyStr(KeysOf(u)[k].AccessKeyId),
   last_used |-> PyStr(isoformat(KeysOf(u)[k].AccessKeyLastUsed.LastUsedDate)),
   days_since_use |-> PyInt(FloorDays(current_time.unused - KeysOf(u)[k].AccessKeyLastUsed.LastUsedDate)),
   severity |-> PyStr("LOW")]

WasUsed(u, k) == KeysOf(u)[k].AccessKeyLastUsed # NeverUsed
DaysSinceUse(u, k) == FloorDays(current_time.unused - KeysOf(u)[k].AccessKeyLastUsed.LastUsedDate)

RECURSIVE UnusedExpected(_, _)
UnusedExpected(u, k) ==
  IF u = 0 THEN <<>>
  ELSE IF k = 0 THEN UnusedExpected(u - 1, IF u = 1 THEN 0 ELSE Len(KeysOf(u - 1)))
  ELSE UnusedExpected(u, k - 1) \o
       (IF UnusedDone(u, k) /\ WasUsed(u, k)
          THEN IF DaysSinceUse(u, k) > INACTIVE_KEY_DAYS
                 THEN <<InactiveRecord(u, k)>>
                 ELSE <<NeverRecord(u, k)>>
          ELSE <<>>)

LastPosition == IF iam = <<>> THEN 0 ELSE Len(KeysOf(Len(iam)))

SummaryPrinted == \E i \in 1..Len(stdout) : stdout[i] = "Audit Complete!"
SnapshotAnnounced ==
  \E i \in 1..Len(stdout) : stdout[i] = "JSON report also saved to: " \o json_filename

(***************************************************************************)
(* C1: once check_unused_access_keys has returned, every key it went       *)
(* through that was never used has an UnusedKey record with last_used      *)
(* "Never" and days_since_use "N/A".  The code does not do this: the else  *)
(* branch that appends the "Never" record belongs to the threshold test,   *)
(* not to the test for LastUsedDate.                                       *)
(***************************************************************************)
C1_NeverUsedKeyReported ==
  UnusedReturned =>
    \A p \in KeyPositions :
      (UnusedDone(p[1], p[2]) /\ ~WasUsed(p[1], p[2])) =>
        \E i \in 1..Len(findings.unused_access_keys) :
          findings.unused_access_keys[i] = NeverRecord(p[1], p[2])

(***************************************************************************)
(* C2 as claimed: a collector in which a call raised returns the empty     *)
(* sequence.                                                               *)
(***************************************************************************)
C2_FailedCollectorIsEmpty ==
  /\ (MfaReturned /\ Failed("mfa")) => findings.users_without_mfa = <<>>
  /\ (OldReturned /\ Failed("old")) => findings.old_access_keys = <<>>
  /\ (UnusedReturned /\ Failed("unused")) => findings.unused_access_keys = <<>>

(***************************************************************************)
(* C2 as amended: a collector in which a call raised returns the records   *)
(* it had appended for the principals and keys it went through before the  *)
(* call that raised, in order; the sequence is empty when list_users       *)
(* raised.                                                                 *)
(***************************************************************************)
C2_FailedCollectorKeepsPrefix ==
  /\ (MfaReturned /\ Failed("mfa")) =>
       /\ findings.users_without_mfa = MfaExpected(Len(iam))
       /\ FailureOf("mfa").at = "mfa_list_users" => findings.users_without_mfa = <<>>
  /\ (OldReturned /\ Failed("old")) =>
       /\ findings.old_access_keys = OldExpected(Len(iam), LastPosition)
       /\ FailureOf("old").at = "old_list_users" => findings.old_access_keys = <<>>
  /\ (UnusedReturned /\ Failed("unused")) =>
       /\ findings.unused_access_keys = UnusedExpected(Len(iam), LastPosition)
       /\ FailureOf("unused").at = "unused_list_users" => findings.unused_access_keys = <<>>

C2_Witness ==
  /\ UnusedReturned
  /\ Failed("mfa") /\ findings.users_without_mfa # <<>>
  /\ Failed("unused") /\ FailureOf("unused").at = "unused_last_used"
  /\ findings.unused_access_keys # <<>>

(***************************************************************************)
(* C3: whichever collectors raise, no collector step ends the run, every   *)
(* collector that did not raise has the result of a run without failures,  *)
(* and a run that got through both writes has both files and status 0.     *)
(***************************************************************************)
C3_FailureIsolation ==
  /\ [](/\ (MfaReturned /\ ~Failed("mfa")) => findings.users_without_mfa = MfaExpected(Len(iam))
        /\ (OldReturned /\ ~Failed("old")) =>
             findings.old_access_keys = OldExpected(Len(iam), LastPosition)
        /\ (UnusedReturned /\ ~Failed("unused")) =>
             findings.unused_access_keys = UnusedExpected(Len(iam), LastPosition)
        /\ pc = "done" => exit_status = 0 /\ written = {"html", "json"}
        /\ exit_status = 1 => UnusedReturned)
  /\ [][/\ pc' = "aborted" => pc \in {"render", "json"}
        /\ pc = "mfa_list_users" => pc' \in {"mfa_devices", "old_list_users"}
        /\ pc = "mfa_devices" => pc' \in {"mfa_devices", "old_list_users"}
        /\ pc = "old_list_users" => pc' \in {"old_keys", "unused_list_users"}
        /\ pc = "old_keys" => pc' \in {"old_keys", "unused_list_users"}
        /\ pc \in {"unused_list_users", "unused_keys", "unused_last_used"} =>
             pc' \in {"unused_keys", "unused_last_used", "render"}]_vars

C3_Witness ==
  /\ pc = "done" /\ exit_status = 0 /\ written = {"html", "json"}
  /\ Failed("mfa") /\ Failed("unused") /\ ~Failed("old")
  /\ findings.old_access_keys # <<>>

(***************************************************************************)
(* C4: in a run of check_old_access_keys without failure, a key has a      *)
(* StaleKey record iff its age in whole days, taken against the one        *)
(* current_time of the collector, is greater than MAX_ACCESS_KEY_AGE_DAYS; *)
(* it then has exactly one, which carries that age.                        *)
(***************************************************************************)
C4_StaleKeyIffOlder ==
  (OldReturned /\ ~Failed("old")) =>
    /\ current_time.old \in Now0..(Now0 + MaxDrift)
    /\ \A p \in KeyPositions :
         LET key == KeysOf(p[1])[p[2]]
             age_in_days == FloorDays(current_time.old - key.CreateDate)
             recs == RecordsFor(findings.old_access_keys, key.AccessKeyId)
         IN /\ (recs # {}) <=> (age_in_days > MAX_ACCESS_KEY_AGE_DAYS)
            /\ age_in_days = MAX_ACCESS_KEY_AGE_DAYS => recs = {}
            /\ \A i \in recs : findings.old_access_keys[i] = StaleRecord(p[1], p[2])
            /\ Cardinality(recs) <= 1
    /\ \A i \in 1..Len(findings.old_access_keys) :
         \E p \in KeyPositions :
           findings.old_access_keys[i].access_key_id = PyStr(KeysOf(p[1])[p[2]].AccessKeyId)

C4_Witness ==
  /\ OldReturned /\ ~Failed("old")
  /\ \E p \in KeyPositions :
       /\ FloorDays(current_time.old - KeysOf(p[1])[p[2]].CreateDate) = MAX_ACCESS_KEY_AGE_DAYS
       /\ current_time.old - KeysOf(p[1])[p[2]].CreateDate > MAX_ACCESS_KEY_AGE_DAYS * TicksPerDay
  /\ \E p \in KeyPositions :
       FloorDays(current_time.old - KeysOf(p[1])[p[2]].CreateDate) = MAX_ACCESS_KEY_AGE_DAYS + 1
  /\ Len(findings.old_access_keys) = 1

C6_TotalIsSum ==
  LET sum == Len(findings.users_without_mfa) + Len(findings.old_access_keys)
               + Len(findings.unused_access_keys)
  IN /\ "html" \in written => htmlFile[2] = "Total Issues Found: " \o ToString(sum)
     /\ SummaryPrinted => stdout[3] = "Total Issues Found: " \o ToString(sum)
     /\ (pc = "done" /\ sum = 0) =>
          /\ written = {"html", "json"}
          /\ htmlFile[2] = "Total Issues Found: 0"
          /\ Len(htmlFile) = 5

C6_Witness ==
  /\ pc = "done"
  /\ findings.users_without_mfa # <<>>
  /\ findings.unused_access_keys # <<>>
  /\ SummaryPrinted

(***************************************************************************)
(* C7 as claimed: the snapshot loads to the findings the document was      *)
(* rendered from, it consists of the generation time and the three finding *)
(* sequences, and its key identifiers are the full ones.                   *)
(***************************************************************************)
FullKeyIds == { PyStr(KeysOf(p[1])[p[2]].AccessKeyId) : p \in KeyPositions }

SnapshotKeyIds(snapshot) ==
  { snapshot.old_access_keys[i].access_key_id : i \in 1..Len(snapshot.old_access_keys) }
  \cup { snapshot.unused_access_keys[i].access_key_id : i \in 1..Len(snapshot.unused_access_keys) }

C7_SnapshotIsFindingsSnapshot ==
  "json" \in written =>
    /\ json_load(jsonFile) = findings
    /\ htmlFile = html_content(json_load(jsonFile))
    /\ DOMAIN json_load(jsonFile) =
         {"timestamp", "users_without_mfa", "old_access_keys", "unused_access_keys"}
    /\ SnapshotKeyIds(json_load(jsonFile)) \subseteq FullKeyIds

(***************************************************************************)
(* C7 as amended: the snapshot loads to the findings the document was      *)
(* rendered from and its key identifiers are the full ones; it consists of *)
(* the generation time, the three finding sequences and two more           *)
(* sequences, users_with_inline_policies and root_account_usage, which are *)
(* always empty.                                                           *)
(***************************************************************************)
C7_SnapshotRoundTrip ==
  /\ [][(pc \in {"summary", "json"}) => (findings' = findings)]_vars
  /\ []("json" \in written =>
         /\ json_load(jsonFile) = findings
         /\ htmlFile = html_content(json_load(jsonFile))
         /\ DOMAIN json_load(jsonFile) =
              {"timestamp", "users_without_mfa", "old_access_keys", "unused_access_keys",
               "users_with_inline_policies", "root_account_usage"}
         /\ json_load(jsonFile).users_with_inline_policies = <<>>
         /\ json_load(jsonFile).root_account_usage = <<>>
         /\ SnapshotKeyIds(json_load(jsonFile)) \subseteq FullKeyIds)

C7_Witness ==
  /\ "json" \in written
  /\ findings.users_without_mfa # <<>>
  /\ \E i \in 1..Len(findings.unused_access_keys) :
       findings.unused_access_keys[i].days_since_use.t = "int"
  /\ \E i \in 1..Len(findings.unused_access_keys) :
       findings.unused_access_keys[i].days_since_use.t = "str"

(***************************************************************************)
(* C8: a write that raises ends the run with status 1: the run goes on     *)
(* past a write only when the file was written, nothing follows the        *)
(* failure, and the status is 0 only when both files were written.         *)
(***************************************************************************)
C8_WriteFailureIsFatal ==
  /\ [](/\ pc \in {"summary", "json", "done"} =>
             "html" \in written /\ htmlFile = html_content(findings)
        /\ pc = "done" => "json" \in written /\ jsonFile = json_dump(findings)
        /\ exit_status = 0 <=> pc = "done"
        /\ exit_status = 1 <=> pc = "aborted"
        /\ pc = "aborted" => written # {"html", "json"}
        /\ exit_status \in {-1, 0, 1})
  /\ [][(pc = "aborted") => (pc' = "aborted" /\ written' = written)]_vars

C8_Witness ==
  /\ pc = "aborted" /\ exit_status = 1
  /\ written = {"html"}
  /\ jsonFile # NoFile

C10_SummaryAfterBothFiles ==
  SummaryPrinted => written = {"html", "json"}

(***************************************************************************)
(* C10 as amended: the three collectors have returned before the report is *)
(* rendered; the completion summary (banner, total, location of the HTML   *)
(* document) is printed after the HTML document is written and before the  *)
(* JSON snapshot is written; only the line with the snapshot's location    *)
(* follows the writing of the snapshot.                                    *)
(***************************************************************************)
C10_SummaryBetweenFiles ==
  /\ (htmlFile # NoFile \/ "html" \in written) =>
       /\ UnusedReturned
       /\ findings.users_without_mfa = users_without_mfa
       /\ findings.old_access_keys = old_keys
       /\ findings.unused_access_keys = unused_keys
  /\ SummaryPrinted =>
       /\ "html" \in written
       /\ stdout[4] = "Report saved to: " \o report_file
  /\ (jsonFile # NoFile \/ "json" \in written) => SummaryPrinted
  /\ SnapshotAnnounced <=> "json" \in written

C10_Witness ==
  /\ pc = "aborted"
  /\ SummaryPrinted
  /\ "json" \notin written
  /\ "html" \in written
====
